---------------------------- MODULE Spec2Model ----------------------------
(***************************************************************************)
(* A model of the Met Office NIMROD radar pipeline:                        *)
(*   - the NIMROD codec (modules/nimrod.py): record framing, header and    *)
(*     payload decoding, bounding-box clipping;                            *)
(*   - the concurrent DAT -> ASC batch (modules/batch_nimrod.py);          *)
(*   - the area-based batch conversion (batch_nimrod.py);                  *)
(*   - the interleaved GZ -> DAT -> ASC -> timeseries pipeline (main.py);  *)
(*   - the ASCII export, the crop window, the point extraction and the     *)
(*     zone tables (modules/nimrod.py, modules/generate_timeseries.py,     *)
(*     NIMROD_timeseries_cleaned.py).                                      *)
(* Each part has its own specification over the shared variables.          *)
(***************************************************************************)
EXTENDS Integers, Sequences, FiniteSets, TLC

VARIABLES
    stream,     \* the byte stream handed to Nimrod.__init__
    dec,        \* the outcome of Nimrod.__init__ on stream
    nim,        \* a decoded Nimrod object that apply_bbox is called on
    last,       \* the latest apply_bbox call: its box, its locals, the object before
    files,      \* BatchNimrod: the DAT files listed in DAT_TOP_FOLDER (sample numbers)
    cfg,        \* BatchNimrod: the configuration flags
    dat,        \* BatchNimrod: the DAT files still on disk
    asc,        \* BatchNimrod: the ASC folder, output path -> state of the file
    task,       \* BatchNimrod: the submitted _process_single_file calls
    collected,  \* BatchNimrod: the futures as_completed has yielded
    completed_count,
    coord,      \* BatchNimrod: where process_nimrod_files is
    gz,         \* main.py: the GZ files still on disk
    finished,   \* main.py: the batches left behind, as they were when the next one was staged
    areas,      \* batch_nimrod.py: the area folders in listing order, with their files
    pos,        \* batch_nimrod.py: the area and the file the loops are at
    outcome,    \* batch_nimrod.py: what happened to each file visited
    run,        \* batch_nimrod.py: running, done, or the exception that ended it
    arg,        \* the input of a function that is run on its own
    acc,        \* what a run of that function has accumulated so far
    ret         \* what the function returned or wrote

decodeVars == <<stream, dec>>
bboxVars == <<nim, last>>
batchVars == <<files, cfg, dat, asc, task, collected, completed_count, coord, gz,
              finished>>
areaVars == <<areas, pos, outcome, run>>
funVars == <<arg, acc, ret>>
vars == <<stream, dec, nim, last,
          files, cfg, dat, asc, task, collected, completed_count, coord, gz, finished,
          areas, pos, outcome, run, arg, acc, ret>>

(***************************************************************************)
(* Bounds of the model.                                                    *)
(***************************************************************************)
MaxDim == 2         \* largest nrows / ncols a header declares
BoxSlack == 1       \* how far beyond the half-pixel tolerance a box edge may lie
NFiles == 3         \* DAT files in one run of BatchNimrod.process_nimrod_files
FilesPerArea == 2   \* DAT files in one area folder
MaxWorkers == 2     \* worker threads of the ThreadPoolExecutor
NTimes == 3         \* distinct validity times of the files of a timeseries run
NSeriesFiles == 3   \* file results aggregated in a timeseries run
NBatches == 2       \* batches of tar archives in a run of main.py

Max(a, b) == IF a >= b THEN a ELSE b
Min(a, b) == IF a <= b THEN a ELSE b

(***************************************************************************)
(* Byte encodings (struct ">l", numpy ">h"): big-endian two's complement.  *)
(***************************************************************************)
Enc16(v) ==
    LET u == IF v >= 0 THEN v ELSE v + 65536
    IN  <<u \div 256, u % 256>>

Dec16(b) ==
    LET u == b[1] * 256 + b[2]
    IN  IF u >= 32768 THEN u - 65536 ELSE u

Enc32(v) ==
    LET w  == IF v >= 0 THEN v ELSE v + 2147483647 + 1
        hi == (w \div 16777216) + (IF v >= 0 THEN 0 ELSE 128)
    IN  <<hi, (w \div 65536) % 256, (w \div 256) % 256, w % 256>>

Dec32(b) ==
    LET hi == IF b[1] >= 128 THEN b[1] - 256 ELSE b[1]
    IN  hi * 16777216 + b[2] * 65536 + b[3] * 256 + b[4]

RECURSIVE Concat(_)
Concat(ss) == IF ss = <<>> THEN <<>> ELSE Head(ss) \o Concat(Tail(ss))

(***************************************************************************)
(* Layout of a NIMROD file: [len=512][512-byte header][len=512]            *)
(* [len=nrows*ncols*2][payload][len=nrows*ncols*2].                        *)
(***************************************************************************)
HeaderLen == 512
MarkerLen == 4
GenIntsLen   == 31 * 2
GenRealsLen  == 28 * 4
SpecRealsLen == 45 * 4
CharsLen     == 56
SpecIntsLen  == 51 * 2

\* The parts of the header block in reading order: <<offset, bytes, item size>>.
HeaderParts ==
    LET o1 == MarkerLen
        o2 == o1 + GenIntsLen
        o3 == o2 + GenRealsLen
        o4 == o3 + SpecRealsLen
        o5 == o4 + CharsLen
    IN  << <<o1, GenIntsLen, 2>>, <<o2, GenRealsLen, 4>>, <<o3, SpecRealsLen, 4>>,
           <<o4, CharsLen, 1>>, <<o5, SpecIntsLen, 2>> >>

HeaderEndOff == MarkerLen + HeaderLen
TailOff      == HeaderEndOff + MarkerLen

\* infile.read(n) at offset off of a stream of s.len bytes: how many bytes it returns.
Avail(s, off, n) == Max(0, Min(s.len, off + n) - off)

\* The bytes infile.read(n) returns at offset off >= TailOff.
ReadTail(s, off, n) ==
    LET from == off - TailOff + 1
        got  == Avail(s, off, n)
    IN  SubSeq(s.tail, from, from + got - 1)

(***************************************************************************)
(* The Nimrod object built from the header elements and the raster.        *)
(***************************************************************************)
NewNimrod(h, grid) ==
    [ hdr_element  |-> h,
      nrows        |-> h[16],
      ncols        |-> h[17],
      y_top        |-> h[34],
      y_pixel_size |-> h[35],
      x_left       |-> h[36],
      x_pixel_size |-> h[37],
      x_right      |-> h[36] + h[37] * (h[17] - 1),
      y_bottom     |-> h[34] - h[35] * (h[16] - 1),
      data         |-> grid ]

Failure(kind, actual, expected, location) ==
    [ status |-> kind, actual |-> actual, expected |-> expected,
      location |-> location, obj |-> <<>> ]

Success(image) ==
    [ status |-> "ok", actual |-> 0, expected |-> 0, location |-> "", obj |-> <<image>> ]

NotDecoded ==
    [ status |-> "none", actual |-> 0, expected |-> 0, location |-> "", obj |-> <<>> ]

\* A check_record_len that forgets to compare the length it read.
check_record_len_unchecked(s, off, value, expected, location) ==
    IF Avail(s, off, MarkerLen) < MarkerLen
    THEN Failure("HeaderReadError", 0, 0, "")
    ELSE Success([x |-> 0])

\* check_record_len: "ok", or the failure it raises.
check_record_len(s, off, value, expected, location) ==
    IF Avail(s, off, MarkerLen) < MarkerLen
    THEN Failure("HeaderReadError", 0, 0, "")
    ELSE IF value # expected
         THEN Failure("RecordLenError", value, expected, location)
         ELSE Success([x |-> 0])

\* The try block reading the five header parts: frombytes raises on a partial item.
HeaderBlockRaises(s) ==
    \E i \in 1..Len(HeaderParts) :
        Avail(s, HeaderParts[i][1], HeaderParts[i][2]) % HeaderParts[i][3] # 0

\* np.frombuffer(..., '>h') followed by reshape((nrows, ncols)).
PayloadGrid(bytes, nrows, ncols) ==
    [r \in 1..nrows |->
        [c \in 1..ncols |->
            LET k == (r - 1) * ncols + c
            IN  Dec16(SubSeq(bytes, 2 * k - 1, 2 * k))]]

PayloadRaises(bytes, n, nrows, ncols) ==
    \/ n < 0                          \* read(): length must be non-negative or -1
    \/ Len(bytes) % 2 # 0             \* frombuffer: not a multiple of the item size
    \/ Len(bytes) \div 2 # nrows * ncols   \* reshape: wrong number of values
    \/ nrows < 0 \/ ncols < 0        \* reshape: negative or ambiguous dimension

DataEndCheck(s, off, n) ==
    check_record_len(s, off, IF Avail(s, off, MarkerLen) = MarkerLen
                             THEN Dec32(ReadTail(s, off, MarkerLen)) ELSE 0,
                     n, "data end")

\* Nimrod.__init__
Decode(s) ==
    LET r1 == check_record_len(s, 0, s.m1, HeaderLen, "header start") IN
    IF r1.status # "ok" THEN r1 ELSE
    IF HeaderBlockRaises(s) THEN Failure("HeaderReadError", 0, 0, "") ELSE
    LET r2 == check_record_len(s, HeaderEndOff, s.m2, HeaderLen, "header end") IN
    IF r2.status # "ok" THEN r2 ELSE
    \* characters.decode("utf-8") runs after the try block, unguarded
    IF ~s.text_ok THEN Failure("UnicodeDecodeError", 0, 0, "") ELSE
    LET nrows == s.hdr[16]
        ncols == s.hdr[17]
        n     == ncols * nrows * 2
        m3    == IF Avail(s, TailOff, MarkerLen) = MarkerLen
                 THEN Dec32(ReadTail(s, TailOff, MarkerLen)) ELSE 0
        r3    == check_record_len(s, TailOff, m3, n, "data start")
    IN
    IF r3.status # "ok" THEN r3 ELSE
    LET off   == TailOff + MarkerLen
        bytes == IF n < 0 THEN <<>> ELSE ReadTail(s, off, n)
    IN
    IF PayloadRaises(bytes, n, nrows, ncols)
    THEN Failure("PayloadReadError", 0, 0, "") ELSE
    LET r4 == DataEndCheck(s, off + n, n) IN
    IF r4.status # "ok" THEN r4
    ELSE Success(NewNimrod(s.hdr, PayloadGrid(bytes, nrows, ncols)))

(***************************************************************************)
(* The streams the decoder is run on: every combination of a right or a    *)
(* wrong marker at each of the four places, valid or invalid text bytes,   *)
(* a payload of one value fewer / exactly / one value more than declared,  *)
(* cut at any byte near a part boundary or anywhere after the header.      *)
(***************************************************************************)
DimValues == 0..MaxDim

\* Header elements the pipeline reads (1-based NIMROD element numbers).
HdrElems == {1, 2, 3, 4, 5, 16, 17, 34, 35, 36, 37, 38}

DefaultYTop == 20
DefaultXLeft == 10
DefaultPixel == 2
NoData == -1

Header(vt, nrows, ncols, ytop, ypix, xleft, xpix) ==
    [e \in HdrElems |->
        CASE e \in 1..5 -> vt[e]
          [] e = 16 -> nrows
          [] e = 17 -> ncols
          [] e = 34 -> ytop
          [] e = 35 -> ypix
          [] e = 36 -> xleft
          [] e = 37 -> xpix
          [] e = 38 -> NoData]

DefaultTime == <<2024, 1, 2, 3, 5>>

\* The k-th payload value a writer stores (row-major).
CellValue(k) == 10 * k

PayloadBytes(count) == Concat([k \in 1..count |-> Enc16(CellValue(k))])

MarkerChoices(e) == {e, e + 2}

MakeStream(m1, h, text_ok, m2, m3, count, m4, len) ==
    [ m1 |-> m1, hdr |-> h, text_ok |-> text_ok, m2 |-> m2,
      tail |-> SubSeq(Enc32(m3) \o PayloadBytes(count) \o Enc32(m4), 1, len - TailOff),
      len |-> len ]

FullLen(count) == TailOff + MarkerLen + 2 * count + MarkerLen

CutPoints(count) ==
    {0, 1, 3, 4, 5}
    \cup UNION {{HeaderParts[i][1] + d : d \in -1..2} : i \in 2..Len(HeaderParts)}
    \cup ((HeaderEndOff - 1)..FullLen(count))

\* Header elements 16 and 17 are signed 16-bit values: dimensions below zero.
NegativeDims == {<<-1, -1>>, <<-1, 0>>, <<0, -1>>, <<-1, 1>>, <<1, -1>>}

Streams ==
    UNION { UNION { UNION {
        { MakeStream(m1, Header(DefaultTime, nr, nc, DefaultYTop, DefaultPixel,
                                DefaultXLeft, DefaultPixel),
                     ok, m2, m3, count, m4, len) :
            m1 \in MarkerChoices(HeaderLen), m2 \in MarkerChoices(HeaderLen),
            ok \in BOOLEAN, len \in CutPoints(count) } :
          m3 \in MarkerChoices(2 * nr * nc), m4 \in MarkerChoices(2 * nr * nc) } :
          count \in {c \in {nr * nc - 1, nr * nc, nr * nc + 1} : c >= 0} } :
          nr \in DimValues, nc \in DimValues }
    \cup
    UNION { UNION {
        { MakeStream(HeaderLen, Header(DefaultTime, d[1], d[2], DefaultYTop, DefaultPixel,
                                       DefaultXLeft, DefaultPixel),
                     TRUE, HeaderLen, m3, count, m4, FullLen(count)) :
            m3 \in MarkerChoices(2 * d[1] * d[2]), m4 \in MarkerChoices(2 * d[1] * d[2]) } :
          count \in {c \in {d[1] * d[2] - 1, d[1] * d[2], d[1] * d[2] + 1} : c >= 0} } :
          d \in NegativeDims }

NoStream ==
    MakeStream(0, Header(DefaultTime, 0, 0, 0, DefaultPixel, 0, DefaultPixel),
               TRUE, 0, 0, 0, 0, 0)

DecodeIdle == stream = NoStream /\ dec = NotDecoded

(***************************************************************************)
(* Nimrod.apply_bbox.  Coordinates and pixel sizes are integers; halves    *)
(* (pixel_size / 2, + 0.5) are kept exact by doubling both sides.          *)
(***************************************************************************)
\* Python's int(): truncation towards zero of num / den, den > 0.
IntTrunc(num, den) == IF num >= 0 THEN num \div den ELSE -((-num) \div den)

\* int(offset / size + 0.5)
PixelId(offset, size) == IntTrunc(2 * offset + size, 2 * size)

\* The no-overlap test of apply_bbox (the bottom edge uses x_pixel_size).
NoOverlap(n, xmin, xmax, ymin, ymax) ==
    \/ 2 * xmin > 2 * n.x_right + n.x_pixel_size
    \/ 2 * xmax < 2 * n.x_left - n.x_pixel_size
    \/ 2 * ymin > 2 * n.y_top + n.y_pixel_size
    \/ 2 * ymax < 2 * n.y_bottom - n.x_pixel_size

\* Python's seq[start:stop].
PyBound(i, n) == IF i < 0 THEN Max(i + n, 0) ELSE Min(i, n)
PySlice(seq, start, stop) ==
    LET a == PyBound(start, Len(seq))
        b == PyBound(stop, Len(seq))
    IN  [k \in 1..Max(b - a, 0) |-> seq[a + k]]

\* A slice that forgets the + 1 of the inclusive end index.
Crop_exclusive(grid, yMin, yMax, xMin, xMax) ==
    LET rows == PySlice(grid, yMin, yMax)
    IN  [r \in 1..Len(rows) |-> PySlice(rows[r], xMin, xMax)]

\* data[yMin : yMax + 1, xMin : xMax + 1]
Crop(grid, yMin, yMax, xMin, xMax) ==
    LET rows == PySlice(grid, yMin, yMax + 1)
    IN  [r \in 1..Len(rows) |-> PySlice(rows[r], xMin, xMax + 1)]

\* The pixel indices apply_bbox computes after limiting the box to the raster.
BboxIndices(n, xmin, xmax, ymin, ymax) ==
    LET cxmin == Max(xmin, n.x_left)
        cxmax == Min(xmax, n.x_right)
        cymin == Max(ymin, n.y_bottom)
        cymax == Min(ymax, n.y_top)
    IN  [ xMin |-> PixelId(cxmin - n.x_left, n.x_pixel_size),
          xMax |-> PixelId(cxmax - n.x_left, n.x_pixel_size),
          yMin |-> PixelId(n.y_top - cymax, n.y_pixel_size),
          yMax |-> PixelId(n.y_top - cymin, n.y_pixel_size) ]

NoIndices == [xMin |-> 0, xMax |-> 0, yMin |-> 0, yMax |-> 0]

\* The object after the updates of apply_bbox for pixel indices p.
Clipped(n, p) ==
    LET nrows == p.yMax - p.yMin + 1
        ncols == p.xMax - p.xMin + 1
        ytop  == n.y_top - p.yMin * n.y_pixel_size
        xleft == n.x_left + p.xMin * n.x_pixel_size
    IN  [ n EXCEPT
            !.data     = Crop(n.data, p.yMin, p.yMax, p.xMin, p.xMax),
            !.x_right  = n.x_left + p.xMax * n.x_pixel_size,
            !.x_left   = xleft,
            !.ncols    = ncols,
            !.y_bottom = n.y_top - p.yMax * n.y_pixel_size,
            !.y_top    = ytop,
            !.nrows    = nrows,
            !.hdr_element = [n.hdr_element EXCEPT
                                ![16] = nrows, ![17] = ncols,
                                ![34] = ytop,  ![36] = xleft] ]

\* apply_bbox with the no-overlap test moved behind the updates of the object.
apply_bbox_checksLast(n, xmin, xmax, ymin, ymax) ==
    LET p == BboxIndices(n, xmin, xmax, ymin, ymax)
    IN  IF NoOverlap(n, xmin, xmax, ymin, ymax)
        THEN [raised |-> TRUE, idx |-> NoIndices, obj |-> Clipped(n, p)]
        ELSE [raised |-> FALSE, idx |-> p, obj |-> Clipped(n, p)]

\* apply_bbox: whether it raises BboxRangeError, its locals, the object afterwards.
apply_bbox(n, xmin, xmax, ymin, ymax) ==
    IF NoOverlap(n, xmin, xmax, ymin, ymax)
    THEN [raised |-> TRUE, idx |-> NoIndices, obj |-> n]
    ELSE LET p == BboxIndices(n, xmin, xmax, ymin, ymax)
         IN  [raised |-> FALSE, idx |-> p, obj |-> Clipped(n, p)]

(***************************************************************************)
(* Specification of bounding-box clipping: a raster decoded from a valid   *)
(* stream, then any sequence of apply_bbox calls with boxes whose edges    *)
(* lie up to BoxSlack beyond the half-pixel tolerance of the raster.       *)
(***************************************************************************)
PixelPairs == {<<2, 2>>, <<2, 4>>, <<4, 2>>}     \* <<x_pixel_size, y_pixel_size>>

ValidStream(nr, nc, xpix, ypix) ==
    MakeStream(HeaderLen,
               Header(DefaultTime, nr, nc, DefaultYTop, ypix, DefaultXLeft, xpix),
               TRUE, HeaderLen, 2 * nr * nc, nr * nc, 2 * nr * nc, FullLen(nr * nc))

Rasters ==
    { Decode(ValidStream(nr, nc, pp[1], pp[2])).obj[1] :
        nr \in 1..MaxDim, nc \in 1..MaxDim, pp \in PixelPairs }

NoCall(n) ==
    [called |-> FALSE, box |-> <<0, 0, 0, 0>>, raised |-> FALSE,
     idx |-> NoIndices, before |-> n]

IdleNimrod == NewNimrod(Header(DefaultTime, 0, 0, 0, 0, 0, 0), <<>>)
BboxIdle == nim = IdleNimrod /\ last = NoCall(IdleNimrod)

BboxInit == nim \in Rasters /\ last = NoCall(nim)

XCoords(n) ==
    (n.x_left - n.x_pixel_size \div 2 - BoxSlack)
        .. (n.x_right + n.x_pixel_size \div 2 + BoxSlack)
YCoords(n) ==
    (n.y_bottom - Max(n.x_pixel_size, n.y_pixel_size) \div 2 - BoxSlack)
        .. (n.y_top + n.y_pixel_size \div 2 + BoxSlack)

HasCells(n) == Len(n.data) > 0 /\ Len(n.data[1]) > 0

\* Exploration stops once the raster's origin has moved a full raster away from
\* where it was decoded: a raster without cells can drift without end.
WithinReach(n) ==
    /\ n.x_left <= DefaultXLeft + MaxDim * n.x_pixel_size
    /\ n.y_top >= DefaultYTop - MaxDim * n.y_pixel_size

\* image.apply_bbox(xmin, xmax, ymin, ymax): the call runs to its end or raises.
ApplyBbox ==
    /\ ~last.called
    /\ WithinReach(nim)
    /\ \E xmin \in XCoords(nim), ymin \in YCoords(nim) :
       \E xmax \in {x \in XCoords(nim) : x >= xmin},
          ymax \in {y \in YCoords(nim) : y >= ymin} :
           LET r == apply_bbox(nim, xmin, xmax, ymin, ymax)
           IN  /\ nim' = r.obj
               /\ last' = [called |-> TRUE, box |-> <<xmin, xmax, ymin, ymax>>,
                           raised |-> r.raised, idx |-> r.idx, before |-> nim]
    /\ UNCHANGED <<decodeVars, batchVars, areaVars, funVars>>

\* The call has returned (or its BboxRangeError was caught): its locals are gone
\* and the caller holds the object for the next call.
BboxReturn ==
    /\ last.called
    /\ last' = NoCall(nim)
    /\ UNCHANGED <<nim, decodeVars, batchVars, areaVars, funVars>>

(***************************************************************************)
(* Specification of the decoder.                                           *)
(***************************************************************************)
DecodeInit == stream \in Streams /\ dec = NotDecoded

\* image = Nimrod(infile)
Construct ==
    /\ dec.status = "none"
    /\ dec' = Decode(stream)
    /\ UNCHANGED <<stream, bboxVars, batchVars, areaVars, funVars>>

(***************************************************************************)
(* BatchNimrod (modules/batch_nimrod.py): every DAT file is submitted to a *)
(* thread pool as one _process_single_file call; the coordinator counts    *)
(* the futures as they complete.                                           *)
(***************************************************************************)
LaterTime == <<2024, 1, 2, 3, 10>>

SampleStream(vt, ok, m3, len) ==
    MakeStream(HeaderLen,
               Header(vt, 1, 1, DefaultYTop, DefaultPixel, DefaultXLeft, DefaultPixel),
               ok, HeaderLen, m3, 1, 2, len)

\* A valid file of two rows whose header carries the validity time of the
\* first sample.
TallStream ==
    MakeStream(HeaderLen,
               Header(DefaultTime, 2, 1, DefaultYTop, DefaultPixel, DefaultXLeft, DefaultPixel),
               TRUE, HeaderLen, 4, 2, 4, FullLen(2))

\* The DAT files a run may meet: two valid files, a payload cut short, a header
\* cut short, a wrong data-start marker, and a valid file of another shape with
\* the validity time of the first.
SampleStreams ==
    << SampleStream(DefaultTime, TRUE, 2, FullLen(1)),
       SampleStream(LaterTime, TRUE, 2, FullLen(1)),
       SampleStream(DefaultTime, TRUE, 2, TailOff + MarkerLen + 1),
       SampleStream(DefaultTime, TRUE, 2, MarkerLen + GenIntsLen),
       SampleStream(DefaultTime, TRUE, 4, FullLen(1)),
       TallStream >>

\* "%N.Nd" % v: at least N digits, zero padded, a sign in front.
RECURSIVE DigitsOf(_)
DigitsOf(v) ==
    IF v < 10 THEN <<v>> ELSE DigitsOf(v \div 10) \o <<v % 10>>

RECURSIVE ZeroPad(_, _)
ZeroPad(ds, width) == IF Len(ds) >= width THEN ds ELSE ZeroPad(<<0>> \o ds, width)

FormatD(v, width) ==
    IF v >= 0 THEN ZeroPad(DigitsOf(v), width)
    ELSE <<-1>> \o ZeroPad(DigitsOf(-v), width)

\* Nimrod.get_validity_time: "%4.4d%2.2d%2.2d%2.2d%2.2d" of header elements 1..5.
get_validity_time(n) ==
    FormatD(n.hdr_element[1], 4) \o FormatD(n.hdr_element[2], 2)
        \o FormatD(n.hdr_element[3], 2) \o FormatD(n.hdr_element[4], 2)
        \o FormatD(n.hdr_element[5], 2)

Files == 1..NFiles

\* What lands in the DAT file: sample k, or nothing when the GZ file is not gzip
\* data (open(dat_path, "wb") has created the file before the first read fails).
DatStream(k) ==
    IF k = 0 THEN SampleStream(DefaultTime, TRUE, 2, 0) ELSE SampleStreams[k]

\* Nimrod(f) on each of the DAT files a run may meet.
DecodedSamples == [k \in 0..Len(SampleStreams) |-> Decode(DatStream(k))]

FileDecode(i) == DecodedSamples[files[i]]

AscPaths ==
    { get_validity_time(Decode(SampleStreams[k]).obj[1]) :
        k \in {j \in 1..Len(SampleStreams) : Decode(SampleStreams[j]).status = "ok"} }

\* The except clauses of _process_single_file with the payload clause (and the
\* catch-all behind it) missing.
ExceptResult_payloadEscapes(kind) ==
    IF kind = "HeaderReadError" THEN "False" ELSE "raised"

\* The except clauses of _process_single_file: what the call returns for an
\* exception of this kind.
ExceptResult(kind) ==
    CASE kind = "HeaderReadError"  -> "False"
      [] kind = "PayloadReadError" -> "False"
      [] OTHER                     -> "False"     \* except Exception

Running == {i \in Files : task[i].pc \in {"decode", "write", "rows"}}

NoFile == [state |-> "absent", by |-> 0]

\* An ASC file of the batch run: whether a handle has it open, the task that
\* opened it last, and its lines.  A line is <<task, k>>: line k of what that
\* task writes, k = 0 standing for the six header lines and k >= 1 for raster
\* row k; <<0, 0>> is the gap a write beyond the end of the file leaves.
NoAsc == [state |-> "absent", by |-> 0, lines |-> <<>>]
Gap == <<0, 0>>

\* What extract_asc writes for task i: the header lines, then one line per row.
AscLines(i, n) == [k \in 1..(n.nrows + 1) |-> <<i, k - 1>>]

\* A handle writes bs at its own offset: the file grows as needed, what lay
\* under the written range is replaced, everything else stays.
WriteAt(content, offset, bs) ==
    [j \in 1..Max(Len(content), offset + Len(bs)) |->
        IF j > offset /\ j <= offset + Len(bs) THEN bs[j - offset]
        ELSE IF j <= Len(content) THEN content[j]
        ELSE Gap]

BatchIdle ==
    /\ files = <<>> /\ cfg = [delete_dat_after_processing |-> FALSE]
    /\ dat = {} /\ asc = <<>> /\ task = <<>> /\ collected = {}
    /\ completed_count = 0 /\ coord = "idle" /\ gz = {} /\ finished = <<>>

\* The state once every file has been submitted (lines 62-74).
BatchInit ==
    /\ files \in {f \in [Files -> 1..Len(SampleStreams)] :
                    \A i \in 1..(NFiles - 1) : f[i] <= f[i + 1]}
    /\ cfg \in [delete_dat_after_processing : BOOLEAN]
    /\ dat = Files
    /\ asc = [p \in AscPaths |-> NoAsc]
    /\ task = [i \in Files |-> [pc |-> "queued", result |-> "none"]]
    /\ collected = {}
    /\ completed_count = 0
    /\ coord = "collecting"
    /\ gz = {}
    /\ finished = <<>>

\* A worker thread takes the next queued call.
TaskStart(i) ==
    /\ task[i].pc = "queued"
    /\ \A j \in Files : j < i => task[j].pc # "queued"
    /\ Cardinality(Running) < MaxWorkers
    /\ task' = [task EXCEPT ![i].pc = "decode"]
    /\ UNCHANGED <<files, cfg, dat, asc, collected, completed_count, coord, gz, finished>>
    /\ UNCHANGED <<decodeVars, bboxVars, areaVars, funVars>>

\* image = Nimrod(f), then open(out_file_path, "w"), which creates the file or
\* empties the one that is there; a failure is logged and the call returns what
\* its except clause says.
TaskDecode(i) ==
    /\ task[i].pc = "decode"
    /\ LET d == FileDecode(i)
       IN  IF d.status = "ok"
           THEN /\ task' = [task EXCEPT ![i].pc = "write"]
                /\ asc' = [asc EXCEPT ![get_validity_time(d.obj[1])] =
                                          [state |-> "open", by |-> i, lines |-> <<>>]]
           ELSE /\ task' = [task EXCEPT ![i] = [pc |-> "done",
                                                result |-> ExceptResult(d.status)]]
                /\ UNCHANGED asc
    /\ UNCHANGED <<files, cfg, dat, collected, completed_count, coord, gz, finished>>
    /\ UNCHANGED <<decodeVars, bboxVars, areaVars, funVars>>

\* image.extract_asc(outfile), the six outfile.write calls: the header lines
\* reach the file at the start of this handle.
TaskWrite(i) ==
    /\ task[i].pc = "write"
    /\ task' = [task EXCEPT ![i].pc = "rows"]
    /\ LET n == FileDecode(i).obj[1]
           p == get_validity_time(n)
       IN  asc' = [asc EXCEPT ![p].lines =
                       WriteAt(asc[p].lines, 0, SubSeq(AscLines(i, n), 1, 1))]
    /\ UNCHANGED <<files, cfg, dat, collected, completed_count, coord, gz, finished>>
    /\ UNCHANGED <<decodeVars, bboxVars, areaVars, funVars>>

\* image.extract_asc(outfile), np.savetxt and outfile.close(): the raster lines
\* follow where this handle stands, behind its header lines.  Then
\* os.remove(in_file_full) if configured; return True.
TaskRows(i) ==
    /\ task[i].pc = "rows"
    /\ task' = [task EXCEPT ![i] = [pc |-> "done", result |-> "True"]]
    /\ dat' = IF cfg.delete_dat_after_processing THEN dat \ {i} ELSE dat
    /\ LET n == FileDecode(i).obj[1]
           p == get_validity_time(n)
       IN  asc' = [asc EXCEPT ![p] =
                       [state |-> IF \E j \in Files \ {i} :
                                        /\ task[j].pc \in {"write", "rows"}
                                        /\ get_validity_time(FileDecode(j).obj[1]) = p
                                  THEN "open" ELSE "complete",
                        by |-> asc[p].by,
                        lines |-> WriteAt(asc[p].lines, 1,
                                          SubSeq(AscLines(i, n), 2, n.nrows + 1))]]
    /\ UNCHANGED <<files, cfg, collected, completed_count, coord, gz, finished>>
    /\ UNCHANGED <<decodeVars, bboxVars, areaVars, funVars>>

\* One turn of the as_completed loop.
Collect(i) ==
    /\ coord = "collecting"
    /\ task[i].pc = "done"
    /\ i \notin collected
    /\ collected' = collected \cup {i}
    /\ completed_count' = completed_count + 1
    /\ UNCHANGED <<files, cfg, dat, asc, task, coord, gz, finished>>
    /\ UNCHANGED <<decodeVars, bboxVars, areaVars, funVars>>

\* as_completed is exhausted and the with block is left.
CoordFinish ==
    /\ coord = "collecting"
    /\ collected = Files
    /\ coord' = "done"
    /\ UNCHANGED <<files, cfg, dat, asc, task, collected, completed_count, gz, finished>>
    /\ UNCHANGED <<decodeVars, bboxVars, areaVars, funVars>>

\* KeyboardInterrupt: shutdown(wait=False, cancel_futures=True), then re-raise.
Interrupt ==
    /\ coord = "collecting"
    /\ coord' = "interrupted"
    /\ task' = [i \in Files |->
                  IF task[i].pc = "queued"
                  THEN [pc |-> "cancelled", result |-> "none"] ELSE task[i]]
    /\ UNCHANGED <<files, cfg, dat, asc, collected, completed_count, gz, finished>>
    /\ UNCHANGED <<decodeVars, bboxVars, areaVars, funVars>>

(***************************************************************************)
(* The interleaved pipeline (main.py): every GZ file of a batch goes       *)
(* through process_pipeline on a worker thread; the batch loop takes each  *)
(* future's result.                                                        *)
(***************************************************************************)
\* Python values that reach process_asc_file as file_name.
PyBool(b) == [type |-> "bool", asc |-> FALSE, truth |-> b]
PyStr(is_asc) == [type |-> "str", asc |-> is_asc, truth |-> TRUE]

\* GenerateTimeseries.process_asc_file up to its first return: endswith exists
\* on str only; a name without ".asc" returns None.
process_asc_file(file_name) ==
    CASE file_name.type # "str" -> [raised |-> "AttributeError", value |-> "none"]
      [] ~file_name.asc         -> [raised |-> "", value |-> "None"]
      [] OTHER                  -> [raised |-> "", value |-> "results"]

\* The GZ files of the batch: not gzip data, a valid file, a payload cut short,
\* a wrong data-start marker.
PipeKinds == {0, 1, 3, 5}

PipeRunning ==
    {i \in Files : task[i].pc \in {"extract", "decode", "write", "cleanup", "timeseries"}}

\* The state once every GZ file has been submitted (lines 151-157).
PipeInit ==
    /\ files \in {f \in [Files -> PipeKinds] :
                    \A i \in 1..(NFiles - 1) : f[i] <= f[i + 1]}
    /\ cfg \in [delete_gz_after_processing : BOOLEAN,
                delete_dat_after_processing : BOOLEAN]
    /\ gz = Files
    /\ dat = {}
    /\ asc = [p \in AscPaths |-> NoFile]
    /\ task = [i \in Files |-> [pc |-> "queued", result |-> "none"]]
    /\ collected = {}
    /\ completed_count = 0
    /\ coord = "collecting"
    /\ finished = <<>>

\* A worker thread takes the next queued call of process_pipeline.
PipeStart(i) ==
    /\ task[i].pc = "queued"
    /\ \A j \in Files : j < i => task[j].pc # "queued"
    /\ Cardinality(PipeRunning) < MaxWorkers
    /\ task' = [task EXCEPT ![i].pc = "extract"]
    /\ UNCHANGED <<files, cfg, dat, asc, collected, completed_count, coord, gz, finished>>
    /\ UNCHANGED <<decodeVars, bboxVars, areaVars, funVars>>

\* extraction.process_single_gz: the DAT file is created, then filled; only a
\* complete copy removes the GZ file.  Its own except clause swallows a failure,
\* so dat_path.exists() holds afterwards.
PipeExtract(i) ==
    /\ task[i].pc = "extract"
    /\ dat' = dat \cup {i}
    /\ gz' = IF files[i] # 0 /\ cfg.delete_gz_after_processing THEN gz \ {i} ELSE gz
    /\ task' = [task EXCEPT ![i].pc = "decode"]
    /\ UNCHANGED <<files, cfg, asc, collected, completed_count, coord, finished>>
    /\ UNCHANGED <<decodeVars, bboxVars, areaVars, funVars>>

\* batch._process_single_file up to open(out_file_path, "w"); when it returns
\* False, process_pipeline removes the DAT file if configured and returns None.
PipeDecode(i) ==
    /\ task[i].pc = "decode"
    /\ LET d == FileDecode(i)
       IN  IF d.status = "ok"
           THEN /\ task' = [task EXCEPT ![i].pc = "write"]
                /\ asc' = [asc EXCEPT ![get_validity_time(d.obj[1])] =
                                          [state |-> "open", by |-> i]]
                /\ UNCHANGED dat
           ELSE /\ task' = [task EXCEPT ![i] =
                              [pc |-> "done",
                               result |-> IF ExceptResult(d.status) = "False"
                                          THEN "None" ELSE "raised"]]
                /\ dat' = IF cfg.delete_dat_after_processing THEN dat \ {i} ELSE dat
                /\ UNCHANGED asc
    /\ UNCHANGED <<files, cfg, collected, completed_count, coord, gz, finished>>
    /\ UNCHANGED <<decodeVars, bboxVars, areaVars, funVars>>

\* image.extract_asc(outfile).
PipeWrite(i) ==
    /\ task[i].pc = "write"
    /\ task' = [task EXCEPT ![i].pc = "cleanup"]
    /\ asc' = [asc EXCEPT ![get_validity_time(FileDecode(i).obj[1])] =
                              [state |-> "complete", by |-> i]]
    /\ UNCHANGED <<files, cfg, dat, collected, completed_count, coord, gz, finished>>
    /\ UNCHANGED <<decodeVars, bboxVars, areaVars, funVars>>

\* os.remove(in_file_full) if configured; _process_single_file returns True.
PipeCleanup(i) ==
    /\ task[i].pc = "cleanup"
    /\ dat' = IF cfg.delete_dat_after_processing THEN dat \ {i} ELSE dat
    /\ task' = [task EXCEPT ![i].pc = "timeseries"]
    /\ UNCHANGED <<files, cfg, asc, collected, completed_count, coord, gz, finished>>
    /\ UNCHANGED <<decodeVars, bboxVars, areaVars, funVars>>

\* file_results = timeseries.process_asc_file(asc_file, locations) with the
\* True that _process_single_file returned; return file_results.
PipeTimeseries(i) ==
    /\ task[i].pc = "timeseries"
    /\ LET r == process_asc_file(PyBool(TRUE))
       IN  task' = [task EXCEPT ![i] =
                      [pc |-> "done",
                       result |-> IF r.raised # "" THEN "raised" ELSE r.value]]
    /\ UNCHANGED <<files, cfg, dat, asc, collected, completed_count, coord, gz, finished>>
    /\ UNCHANGED <<decodeVars, bboxVars, areaVars, funVars>>

\* One turn of the as_completed loop: future.result() re-raises what the call
\* raised, and nothing but KeyboardInterrupt is caught around it.
PipeCollect(i) ==
    /\ coord = "collecting"
    /\ task[i].pc = "done"
    /\ i \notin collected
    /\ IF task[i].result = "raised"
       THEN /\ coord' = "crashed"
            /\ UNCHANGED <<collected, completed_count>>
       ELSE /\ collected' = collected \cup {i}
            /\ completed_count' = completed_count + 1
            /\ UNCHANGED coord
    /\ UNCHANGED <<files, cfg, dat, asc, task, gz, finished>>
    /\ UNCHANGED <<decodeVars, bboxVars, areaVars, funVars>>

\* The batch is complete once as_completed has yielded nothing at all.
BatchComplete_atOnce == coord = "collecting"

\* as_completed is exhausted, the with block has joined the workers.
BatchComplete == coord = "collecting" /\ collected = Files

\* The batch is complete: its results are appended to the zone files and its GZ
\* folders are removed, whatever delete_gz_after_processing says.
PipeFinish ==
    /\ BatchComplete
    /\ coord' = "done"
    /\ gz' = {}
    /\ UNCHANGED <<files, cfg, dat, asc, task, collected, completed_count, finished>>
    /\ UNCHANGED <<decodeVars, bboxVars, areaVars, funVars>>

\* The next turn of the batch loop: extract_tar_batch stages the GZ files of the
\* next batch and every one of them is submitted to a new executor.
PipeNextBatch ==
    /\ coord = "done"
    /\ Len(finished) + 1 < NBatches
    /\ finished' = Append(finished, [task |-> task, collected |-> collected,
                                     gz |-> gz, coord |-> coord])
    /\ files' \in {f \in [Files -> PipeKinds] :
                     \A i \in 1..(NFiles - 1) : f[i] <= f[i + 1]}
    /\ gz' = Files
    /\ dat' = {}
    /\ task' = [i \in Files |-> [pc |-> "queued", result |-> "none"]]
    /\ collected' = {}
    /\ completed_count' = 0
    /\ coord' = "collecting"
    /\ UNCHANGED <<cfg, asc>>
    /\ UNCHANGED <<decodeVars, bboxVars, areaVars, funVars>>

\* KeyboardInterrupt: shutdown(wait=False, cancel_futures=True), then re-raise.
PipeInterrupt ==
    /\ coord = "collecting"
    /\ coord' = "interrupted"
    /\ task' = [i \in Files |->
                  IF task[i].pc = "queued"
                  THEN [pc |-> "cancelled", result |-> "none"] ELSE task[i]]
    /\ UNCHANGED <<files, cfg, dat, asc, collected, completed_count, gz, finished>>
    /\ UNCHANGED <<decodeVars, bboxVars, areaVars, funVars>>

PipeNext ==
    \/ \E i \in Files : PipeStart(i)
    \/ \E i \in Files : PipeExtract(i)
    \/ \E i \in Files : PipeDecode(i)
    \/ \E i \in Files : PipeWrite(i)
    \/ \E i \in Files : PipeCleanup(i)
    \/ \E i \in Files : PipeTimeseries(i)
    \/ \E i \in Files : PipeCollect(i)
    \/ PipeFinish
    \/ PipeNextBatch
    \/ PipeInterrupt

(***************************************************************************)
(* Area-based batch conversion (batch_nimrod.py): for every area folder,   *)
(* every file is decoded, clipped to the area's bounding box and exported. *)
(***************************************************************************)
\* BOUNDING_BOX_INFO: (xmin, xmax, ymin, ymax) of each configured area.
BOUNDING_BOX_INFO ==
    [ BRISCS |-> <<607000, 608000, 217000, 218000>>,
      WINTSC |-> <<499000, 500000, 416000, 417000>> ]

AreaNames == DOMAIN BOUNDING_BOX_INFO

\* The files of the area folders: 2 x 2 rasters over the BRISCS box.
AreaStream(ok, m3, len) ==
    MakeStream(HeaderLen, Header(DefaultTime, 2, 2, 218000, 1000, 607000, 1000),
               ok, HeaderLen, m3, 4, 8, len)

\* A valid file, a payload cut short, a header cut short, a wrong data-start
\* marker, text bytes that are not UTF-8.
AreaStreams ==
    << AreaStream(TRUE, 8, FullLen(4)),
       AreaStream(TRUE, 8, TailOff + MarkerLen + 3),
       AreaStream(TRUE, 8, MarkerLen + GenIntsLen),
       AreaStream(TRUE, 10, FullLen(4)),
       AreaStream(FALSE, 8, FullLen(4)) >>

\* An except clause that treats a bounding box out of range like a read error.
AreaHandler_bboxContinues(kind) ==
    CASE kind = "HeaderReadError"  -> "continue"
      [] kind = "PayloadReadError" -> "continue"
      [] kind = "BboxRangeError"   -> "continue"
      [] OTHER                     -> "propagate"

\* The except clauses of the loop body: what follows an exception of this kind.
AreaHandler(kind) ==
    CASE kind = "HeaderReadError"  -> "continue"
      [] kind = "PayloadReadError" -> "continue"
      [] kind = "BboxRangeError"   -> "break"
      [] OTHER                     -> "propagate"

\* The try body for one file: decode, clip, export.  "ok" or the exception raised.
AreaTry(sample, box) ==
    LET d == Decode(AreaStreams[sample])
    IN  IF d.status # "ok" THEN d.status
        ELSE IF apply_bbox(d.obj[1], box[1], box[2], box[3], box[4]).raised
             THEN "BboxRangeError"
             ELSE "ok"

AreaIdx == 1..Len(areas)

AreaIdle ==
    /\ areas = <<>> /\ pos = [a |-> 0, i |-> 0] /\ outcome = <<>> /\ run = "idle"

AreaOrders == { <<"BRISCS", "WINTSC">>, <<"WINTSC", "BRISCS">> }

AreaInit ==
    /\ \E order \in AreaOrders :
       \E fs \in [1..Len(order) -> [1..FilesPerArea -> 1..Len(AreaStreams)]] :
           areas = [a \in 1..Len(order) |-> [name |-> order[a], files |-> fs[a]]]
    /\ pos = [a |-> 1, i |-> 1]
    /\ outcome = [a \in 1..Len(areas) |-> [i \in 1..FilesPerArea |-> "none"]]
    /\ run = "running"

\* One turn of the inner loop: the try body and its except clauses.
AreaProcessFile ==
    /\ run = "running"
    /\ pos.a \in AreaIdx
    /\ pos.i <= Len(areas[pos.a].files)
    /\ LET box == BOUNDING_BOX_INFO[areas[pos.a].name]
           res == AreaTry(areas[pos.a].files[pos.i], box)
           act == IF res = "ok" THEN "continue" ELSE AreaHandler(res)
       IN  /\ outcome' = [outcome EXCEPT ![pos.a][pos.i] = res]
           /\ pos' = CASE act = "continue" -> [pos EXCEPT !.i = pos.i + 1]
                       [] act = "break"    -> [a |-> pos.a + 1, i |-> 1]
                       [] OTHER            -> pos
           /\ run' = IF act = "propagate" THEN "aborted" ELSE run
    /\ UNCHANGED <<areas, decodeVars, bboxVars, batchVars, funVars>>

\* The inner loop is exhausted: the outer loop takes the next area.
AreaNextArea ==
    /\ run = "running"
    /\ pos.a \in AreaIdx
    /\ pos.i > Len(areas[pos.a].files)
    /\ pos' = [a |-> pos.a + 1, i |-> 1]
    /\ UNCHANGED <<areas, outcome, run, decodeVars, bboxVars, batchVars, funVars>>

\* The outer loop is exhausted: process_nimrod_files returns.
AreaFinish ==
    /\ run = "running"
    /\ pos.a > Len(areas)
    /\ run' = "done"
    /\ UNCHANGED <<areas, pos, outcome, decodeVars, bboxVars, batchVars, funVars>>

AreaNext == AreaProcessFile \/ AreaNextArea \/ AreaFinish

(***************************************************************************)
(* Nimrod.extract_asc, run on the object decoded from a valid stream.      *)
(***************************************************************************)
\* "%d" % v
FormatInt(v) == FormatD(v, 1)

\* "%.1f" % v for a whole number v: its digits and one decimal.
FormatF1(v) == [int |-> FormatD(v, 1), frac |-> <<0>>]

\* A header that writes the northern edge where the southern one belongs.
AscHeader_top(n) ==
    [ ncols |-> FormatInt(n.ncols), nrows |-> FormatInt(n.nrows),
      xllcenter |-> FormatInt(n.x_left), yllcenter |-> FormatInt(n.y_top),
      cellsize |-> FormatF1(n.y_pixel_size),
      nodata_value |-> FormatF1(n.hdr_element[38]) ]

\* The six header lines of extract_asc.
AscHeader(n) ==
    [ ncols |-> FormatInt(n.ncols), nrows |-> FormatInt(n.nrows),
      xllcenter |-> FormatInt(n.x_left), yllcenter |-> FormatInt(n.y_bottom),
      cellsize |-> FormatF1(n.y_pixel_size),
      nodata_value |-> FormatF1(n.hdr_element[38]) ]

\* Data lines written from the southern row upwards.
AscRows_southFirst(data) ==
    [r \in 1..Len(data) |->
        [c \in 1..Len(data[Len(data) + 1 - r]) |->
            FormatInt(data[Len(data) + 1 - r][c])]]

\* np.savetxt(outfile, self.data, fmt='%d', delimiter=' '): one line per row.
AscRows(data) ==
    [r \in 1..Len(data) |-> [c \in 1..Len(data[r]) |-> FormatInt(data[r][c])]]

extract_asc(n) == [header |-> AscHeader(n), rows |-> AscRows(n.data)]

\* The payload values of the exported files: a ramp, its negative, the int16 limits.
ExportFills == {"ramp", "negative", "limits"}
FillValue(fill, k) ==
    CASE fill = "ramp"     -> CellValue(k)
      [] fill = "negative" -> -CellValue(k)
      [] OTHER             -> IF k % 2 = 1 THEN 32767 ELSE -32768

\* The valid stream for an export input.
ExportStream(a) ==
    LET count == a.nrows * a.ncols
        bytes == Concat([k \in 1..count |-> Enc16(FillValue(a.fill, k))])
    IN  [ m1 |-> HeaderLen,
          hdr |-> Header(DefaultTime, a.nrows, a.ncols, a.y_top, a.y_pixel_size,
                         a.x_left, a.x_pixel_size),
          text_ok |-> TRUE, m2 |-> HeaderLen,
          tail |-> Enc32(2 * count) \o bytes \o Enc32(2 * count),
          len |-> FullLen(count) ]

\* nrows=2, ncols=2, y_top=218000, x_left=607000, pixel size 1000, grid [[10,20],[30,40]].
ExportScenario ==
    [ nrows |-> 2, ncols |-> 2, y_top |-> 218000, y_pixel_size |-> 1000,
      x_left |-> 607000, x_pixel_size |-> 1000, fill |-> "ramp" ]

ExportInputs ==
    { [ nrows |-> nr, ncols |-> nc, y_top |-> DefaultYTop, y_pixel_size |-> pp[2],
        x_left |-> xl, x_pixel_size |-> pp[1], fill |-> f ] :
        nr \in DimValues, nc \in DimValues, pp \in PixelPairs,
        xl \in {DefaultXLeft, -DefaultXLeft}, f \in ExportFills }
    \cup {ExportScenario}

ExportInit == arg \in ExportInputs /\ acc = <<>> /\ ret = <<>>

\* image = Nimrod(f); image.extract_asc(outfile)
ExtractAsc ==
    /\ ret = <<>>
    /\ LET d == Decode(ExportStream(arg))
       IN  /\ d.status = "ok"
           /\ ret' = <<extract_asc(d.obj[1])>>
    /\ UNCHANGED <<arg, acc, decodeVars, bboxVars, batchVars, areaVars>>

ExportNext == ExtractAsc

(***************************************************************************)
(* The crop-window computation, in the script (NIMROD_timeseries_cleaned)  *)
(* and in GenerateTimeseries.  Headers are <<ncols, nrows, x0, y0,         *)
(* cellsize>>; a location is <<zone_id, easting, northing, zone>>.         *)
(***************************************************************************)
\* np.floor(num / den) and np.ceil(num / den) for den > 0.
FloorDiv(num, den) == num \div den
CeilDiv(num, den) == -((-num) \div den)

\* calculate_crop_coords(basin_header, radar_header) of the script.
calculate_crop_coords(basin_header, radar_header) ==
    LET cellres_radar == radar_header[5]
        xp == basin_header[3] - radar_header[3]
        yp == basin_header[4] - radar_header[4]
        xpp == basin_header[1] * basin_header[5]
        ypp == basin_header[2] * basin_header[5]
    IN  << FloorDiv(xp, cellres_radar),
           radar_header[2] - CeilDiv(yp + ypp, cellres_radar),
           CeilDiv(xpp + xp, cellres_radar),
           radar_header[2] - FloorDiv(yp, cellres_radar) >>

\* GenerateTimeseries._calculate_crop_coords(basin_header, radar_header): the
\* basin is a location, its extent fixed at 2 x 2 cells of 1000.
calculate_crop_coords_module(basin_header, radar_header) ==
    LET cellres_radar == radar_header[5]
        xp == basin_header[2] - radar_header[3]
        yp == basin_header[3] - radar_header[4]
        xpp == 2 * 1000
        ypp == 2 * 1000
    IN  << FloorDiv(xp, cellres_radar),
           radar_header[2] - CeilDiv(yp + ypp, cellres_radar),
           CeilDiv(xpp + xp, cellres_radar),
           radar_header[2] - FloorDiv(yp, cellres_radar) >>

CropCells == {500, 1000}
CropOrigins == {0, DefaultXLeft * 1000}

RadarHeaders ==
    { <<nc, nr, x0, y0, cell>> :
        nc \in 1..MaxDim, nr \in 1..MaxDim, x0 \in CropOrigins, y0 \in CropOrigins,
        cell \in CropCells }

\* The targets tried on a source: the source itself, the source moved by one
\* cell, a single cell at the origin of the source.
CropTargets(radar) ==
    { radar,
      <<radar[1], radar[2], radar[3] + radar[5], radar[4] + radar[5], radar[5]>>,
      <<1, 1, radar[3], radar[4], radar[5]>> }

CropInit ==
    /\ \E radar \in RadarHeaders : \E target \in CropTargets(radar) :
           arg = [radar |-> radar, target |-> target]
    /\ acc = <<>> /\ ret = <<>>

\* The script calls calculate_crop_coords with the target's header.
CropScript ==
    /\ ret = <<>>
    /\ ret' = << [by |-> "script",
                  window |-> calculate_crop_coords(arg.target, arg.radar)] >>
    /\ UNCHANGED <<arg, acc, decodeVars, bboxVars, batchVars, areaVars>>

\* process_asc_file calls _calculate_crop_coords with the target's location row.
CropModule ==
    /\ ret = <<>>
    /\ ret' = << [by |-> "module",
                  window |-> calculate_crop_coords_module(
                                 <<"id", arg.target[3], arg.target[4], "zone">>,
                                 arg.radar)] >>
    /\ UNCHANGED <<arg, acc, decodeVars, bboxVars, batchVars, areaVars>>

CropNext == CropScript \/ CropModule

(***************************************************************************)
(* Timeseries aggregation: the coordinator appends each completed file's   *)
(* results to results[zone_id] in completion order; write_results_to_csv   *)
(* builds one table per zone.  A table cell is <<>> (None) or <<value>>.   *)
(***************************************************************************)
\* locations: <<zone_id, easting, northing, zone>>.
Locations ==
    << <<"A", 607000, 217000, "Z1">>,
       <<"B", 608000, 217000, "Z1">>,
       <<"C", 499000, 416000, "Z2">> >>

ZoneIds == {Locations[i][1] : i \in DOMAIN Locations}
Zones == {Locations[i][4] : i \in DOMAIN Locations}

\* Which grid ids a file's results cover.
Coverages == {ZoneIds, {"A", "C"}, {"B", "C"}}

\* The value file f yields for the i-th location.
SeriesValue(f, i) == 10 * f + i

SeqToSet(s) == {s[i] : i \in DOMAIN s}

\* sorted(S)
RECURSIVE SortedSeq(_)
SortedSeq(S) ==
    IF S = {} THEN <<>>
    ELSE LET m == CHOOSE x \in S : \A y \in S : x <= y
         IN  <<m>> \o SortedSeq(S \ {m})

\* The timestamps every member of the zone has, instead of those any member has.
ZoneDates_common(results, members) ==
    SortedSeq({d \in 1..NTimes : \A g \in members : d \in SeqToSet(results[g].dates)})

\* zone_data[zone]['dates']: sorted(set(...)) of the members' dates.
ZoneDates(results, members) ==
    SortedSeq(UNION {SeqToSet(results[g].dates) : g \in members})

\* The alignment loop (lines 241-258) from the k-th expected date on; cd and cv
\* are current_date and current_value, nd and nv what the iterators yield next.
RECURSIVE AlignLoop(_, _, _, _, _, _, _)
AlignLoop(dates, values, k, cd, cv, nd, nv) ==
    IF k > Len(dates) THEN <<>>
    ELSE IF cd = <<dates[k]>>
         THEN IF nd > Len(dates) \/ nv > Len(values)
              THEN <<cv>> \o AlignLoop(dates, values, k + 1, <<>>, <<>>, nd, nv)
              ELSE <<cv>> \o AlignLoop(dates, values, k + 1,
                                       <<dates[nd]>>, <<values[nv]>>, nd + 1, nv + 1)
         ELSE << <<>> >> \o AlignLoop(dates, values, k + 1, cd, cv, nd, nv)

\* aligned_values for one grid id.
Aligned(dates, values) ==
    AlignLoop(dates, values, 1,
              IF Len(dates) > 0 THEN <<dates[1]>> ELSE <<>>,
              IF Len(values) > 0 THEN <<values[1]>> ELSE <<>>,
              2, 2)

Members(zone) == {Locations[i][1] : i \in {j \in DOMAIN Locations : Locations[j][4] = zone}}

\* write_results_to_csv: the table of every zone.
write_results_to_csv(results) ==
    [zone \in Zones |->
        LET dates == ZoneDates(results, Members(zone))
        IN  [ datetime |-> dates,
              cols |-> [g \in Members(zone) |-> Aligned(dates, results[g].values)] ]]

EmptyResults == [g \in ZoneIds |-> [dates |-> <<>>, values |-> <<>>]]

\* results after the coordinator has appended the results of file f.
AppendFile(results, f, file) ==
    [g \in ZoneIds |->
        IF g \in file.covers
        THEN [ dates |-> Append(results[g].dates, file.date),
               values |-> Append(results[g].values,
                                 SeriesValue(f, CHOOSE i \in DOMAIN Locations :
                                                    Locations[i][1] = g)) ]
        ELSE results[g]]

SeriesFiles == 1..NSeriesFiles
FileKinds == [date : 1..NTimes, covers : Coverages]

\* An order on the file kinds, to list each multiset of files once.
KindRank(k) ==
    3 * k.date + (CASE k.covers = ZoneIds -> 0 [] "A" \in k.covers -> 1 [] OTHER -> 2)

SeriesInit ==
    /\ \E fs \in [SeriesFiles -> FileKinds] :
          /\ \A i \in 1..(NSeriesFiles - 1) : KindRank(fs[i]) <= KindRank(fs[i + 1])
          /\ arg = fs
    /\ acc = << [results |-> EmptyResults, collected |-> {}] >>
    /\ ret = <<>>

\* One turn of the as_completed loop: the results of a completed file are appended.
SeriesCollect(f) ==
    /\ ret = <<>>
    /\ f \notin acc[1].collected
    /\ acc' = << [results |-> AppendFile(acc[1].results, f, arg[f]),
                  collected |-> acc[1].collected \cup {f}] >>
    /\ UNCHANGED <<arg, ret, decodeVars, bboxVars, batchVars, areaVars>>

\* All futures are done: write_results_to_csv(results, locations).
SeriesWrite ==
    /\ ret = <<>>
    /\ acc[1].collected = SeriesFiles
    /\ ret' = <<write_results_to_csv(acc[1].results)>>
    /\ UNCHANGED <<arg, acc, decodeVars, bboxVars, batchVars, areaVars>>

SeriesNext == (\E f \in SeriesFiles : SeriesCollect(f)) \/ SeriesWrite

(***************************************************************************)
(* BatchNimrod.process_nimrod_files seen from the coordinator: every call  *)
(* of _process_single_file is one step that ends in True or False, the     *)
(* as_completed loop counts the finished futures and logs its progress.    *)
(***************************************************************************)
NRunFiles == 10         \* DAT files in a run long enough to log progress
ProgressEvery == 10

RunFiles == 1..NRunFiles

\* if completed_count % 10 == 0, with the loop of main.py's interval instead.
ProgressDue_every100(count) == count % 100 = 0

\* if completed_count % 10 == 0
ProgressDue(count) == count % ProgressEvery = 0

\* What _process_single_file returns for a DAT file holding sample k.
CallResult(k) ==
    IF DecodedSamples[k].status = "ok" THEN "True"
    ELSE ExceptResult(DecodedSamples[k].status)

\* The folders a run may meet: valid files only, every sample in turn.
RunInputs ==
    { [i \in RunFiles |-> 1],
      [i \in RunFiles |-> ((i - 1) % Len(SampleStreams)) + 1] }

\* The state once every file has been submitted (lines 62-74).
RunInit ==
    /\ arg \in RunInputs
    /\ acc = << [ call |-> [i \in RunFiles |-> "queued"],
                  collected |-> {},
                  completed_count |-> 0,
                  log |-> <<>>,
                  coord |-> "collecting" ] >>
    /\ ret = <<>>

\* A worker thread runs the next queued call to its end; at most MaxWorkers
\* calls are under way, taken in the order of submission.
RunCall(i) ==
    /\ acc[1].call[i] = "queued"
    /\ Cardinality({j \in RunFiles : j < i /\ acc[1].call[j] = "queued"}) < MaxWorkers
    /\ acc' = <<[acc[1] EXCEPT !.call[i] = CallResult(arg[i])]>>
    /\ UNCHANGED <<arg, ret>>
    /\ UNCHANGED <<decodeVars, bboxVars, batchVars, areaVars>>

\* One turn of the as_completed loop.
RunCollect(i) ==
    /\ acc[1].coord = "collecting"
    /\ acc[1].call[i] \in {"True", "False"}
    /\ i \notin acc[1].collected
    /\ LET count == acc[1].completed_count + 1
       IN  acc' = <<[acc[1] EXCEPT
                       !.collected = @ \cup {i},
                       !.completed_count = count,
                       !.log = IF ProgressDue(count) THEN Append(@, count) ELSE @]>>
    /\ UNCHANGED <<arg, ret>>
    /\ UNCHANGED <<decodeVars, bboxVars, batchVars, areaVars>>

\* as_completed is exhausted and the with block is left.
RunFinish ==
    /\ acc[1].coord = "collecting"
    /\ acc[1].collected = RunFiles
    /\ acc' = <<[acc[1] EXCEPT !.coord = "done"]>>
    /\ UNCHANGED <<arg, ret>>
    /\ UNCHANGED <<decodeVars, bboxVars, batchVars, areaVars>>

\* KeyboardInterrupt: shutdown(wait=False, cancel_futures=True), then re-raise.
RunInterrupt ==
    /\ acc[1].coord = "collecting"
    /\ acc' = <<[acc[1] EXCEPT
                    !.coord = "interrupted",
                    !.call = [i \in RunFiles |->
                                IF @[i] = "queued" THEN "cancelled" ELSE @[i]]]>>
    /\ UNCHANGED <<arg, ret>>
    /\ UNCHANGED <<decodeVars, bboxVars, batchVars, areaVars>>

\* What goes on without the user: the pool's threads and the loop.
RunWork ==
    \/ \E i \in RunFiles : RunCall(i)
    \/ \E i \in RunFiles : RunCollect(i)
    \/ RunFinish

RunNext ==
    \/ \E i \in RunFiles : RunCall(i)
    \/ \E i \in RunFiles : RunCollect(i)
    \/ RunFinish
    \/ RunInterrupt

(***************************************************************************)
(* GenerateTimeseries.process_asc_file behind its first return: the grid   *)
(* is read once, and for every location the crop window is sliced out of   *)
(* it and the third value of the crop, divided by 32, is recorded.         *)
(***************************************************************************)
PointDim == 3           \* largest nrows / ncols of an ASC grid read back
PointReach == 4         \* how many cells a location may lie off the grid's corner

\* The grid of an ASC file: every cell holds 32 times a value of its own.
PointCell(r, c) == 32 * (10 * r + c)
PointGrid(nrows, ncols) == [r \in 1..nrows |-> [c \in 1..ncols |-> PointCell(r, c)]]

\* cur_rawgrid[start_row:end_row, start_col:end_col], the window being
\* <<start_col, start_row, end_col, end_row>>.
CroppedRain(grid, w) ==
    LET rows == PySlice(grid, w[2], w[4])
    IN  [r \in 1..Len(rows) |-> PySlice(rows[r], w[1], w[3])]

\* cur_croppedrain.size: rows times columns of the slice.
CropSize(nrows, ncols, w) ==
    Max(PyBound(w[4], nrows) - PyBound(w[2], nrows), 0)
        * Max(PyBound(w[3], ncols) - PyBound(w[1], ncols), 0)

\* if cur_croppedrain.size > 2: flatten()[2] / 32, else 0.0
PointValue(grid, w) ==
    IF CropSize(Len(grid), Len(grid[1]), w) > 2
    THEN Concat(CroppedRain(grid, w))[3] \div 32
    ELSE 0

\* The try block of process_asc_file.  np.loadtxt squeezes a grid of one row
\* or one column to fewer than two dimensions, the two-dimensional slice then
\* raises IndexError and the except clause returns None.
extract_points(radar_header, parsed_date, locations) ==
    LET grid == PointGrid(radar_header[2], radar_header[1])
    IN  IF radar_header[1] = 1 \/ radar_header[2] = 1
        THEN [kind |-> "None", results |-> <<>>]
        ELSE [kind |-> "list",
              results |-> [k \in 1..Len(locations) |->
                  [zone_id |-> locations[k][1],
                   date |-> parsed_date,
                   value |-> PointValue(grid,
                                 calculate_crop_coords_module(locations[k], radar_header))]]]

PointOrigin == <<DefaultXLeft * 1000, DefaultYTop * 1000>>

PointHeaders ==
    { <<nc, nr, PointOrigin[1], PointOrigin[2], cell>> :
        nc \in 1..PointDim, nr \in 1..PointDim, cell \in CropCells }

\* A location on the lower left cell of the grid, and one up to PointReach
\* cells of 1000 off it in either direction.
PointLocations ==
    { << <<"A", PointOrigin[1], PointOrigin[2], "Z1">>,
         <<"B", PointOrigin[1] + 1000 * dx, PointOrigin[2] + 1000 * dy, "Z1">> >> :
        dx \in (-PointReach)..PointReach, dy \in (-PointReach)..PointReach }

PointInit ==
    /\ arg \in [radar : PointHeaders, date : {DefaultTime}, locations : PointLocations]
    /\ acc = <<>>
    /\ ret = <<>>

\* file_results = timeseries.process_asc_file(asc_file, locations)
ProcessAscFile ==
    /\ ret = <<>>
    /\ ret' = <<extract_points(arg.radar, arg.date, arg.locations)>>
    /\ UNCHANGED <<arg, acc, decodeVars, bboxVars, batchVars, areaVars>>

PointNext == ProcessAscFile

FunIdle == arg = <<>> /\ acc = <<>> /\ ret = <<>>

(***************************************************************************)
(* The specifications: each part runs alone, the other parts stay idle.    *)
(***************************************************************************)
DecodeNext == Construct

DecodeBegin == DecodeInit /\ BboxIdle /\ BatchIdle /\ AreaIdle /\ FunIdle
SpecDecode == DecodeBegin /\ [][DecodeNext]_vars

BboxNext == ApplyBbox \/ BboxReturn

BboxBegin == BboxInit /\ DecodeIdle /\ BatchIdle /\ AreaIdle /\ FunIdle
SpecBbox == BboxBegin /\ [][BboxNext]_vars

BatchNext ==
    \/ \E i \in Files : TaskStart(i)
    \/ \E i \in Files : TaskDecode(i)
    \/ \E i \in Files : TaskWrite(i)
    \/ \E i \in Files : TaskRows(i)
    \/ \E i \in Files : Collect(i)
    \/ CoordFinish
    \/ Interrupt

BatchBegin == BatchInit /\ DecodeIdle /\ BboxIdle /\ AreaIdle /\ FunIdle
SpecBatch == BatchBegin /\ [][BatchNext]_vars

\* The worker threads and the as_completed loop keep running: the with block
\* joins the pool's threads on the way out, also when KeyboardInterrupt is
\* re-raised.  The interrupt itself may or may not come.
BatchWork ==
    \/ \E i \in Files : TaskStart(i)
    \/ \E i \in Files : TaskDecode(i)
    \/ \E i \in Files : TaskWrite(i)
    \/ \E i \in Files : TaskRows(i)
    \/ \E i \in Files : Collect(i)
    \/ CoordFinish
SpecBatchLive == BatchBegin /\ [][BatchNext]_vars /\ WF_vars(BatchWork)


AreaBegin == AreaInit /\ DecodeIdle /\ BboxIdle /\ BatchIdle /\ FunIdle
SpecArea == AreaBegin /\ [][AreaNext]_vars

PipeBegin == PipeInit /\ DecodeIdle /\ BboxIdle /\ AreaIdle /\ FunIdle
SpecPipe == PipeBegin /\ [][PipeNext]_vars

ExportBegin == ExportInit /\ DecodeIdle /\ BboxIdle /\ BatchIdle /\ AreaIdle
SpecExport == ExportBegin /\ [][ExportNext]_vars

CropBegin == CropInit /\ DecodeIdle /\ BboxIdle /\ BatchIdle /\ AreaIdle
SpecCrop == CropBegin /\ [][CropNext]_vars

SeriesBegin == SeriesInit /\ DecodeIdle /\ BboxIdle /\ BatchIdle /\ AreaIdle
SpecSeries == SeriesBegin /\ [][SeriesNext]_vars

PointBegin == PointInit /\ DecodeIdle /\ BboxIdle /\ BatchIdle /\ AreaIdle
SpecPoint == PointBegin /\ [][PointNext]_vars

\* The pool's threads and the as_completed loop keep running; the interrupt
\* may or may not come.
RunBegin == RunInit /\ DecodeIdle /\ BboxIdle /\ BatchIdle /\ AreaIdle
SpecRun == RunBegin /\ [][RunNext]_vars /\ WF_vars(RunWork)

(***************************************************************************)
(* Claims about the batch runs.                                            *)
(***************************************************************************)
Succeeded == {i \in DOMAIN task : task[i].result = "True"}
ValidFiles == {i \in DOMAIN task : FileDecode(i).status = "ok"}

\* C1: in BatchNimrod.process_nimrod_files a file whose decode raises is
\* recorded as a failure (False) for that file alone and nothing is raised by
\* its call; every other file is still processed, and when the run has
\* completed every file has been counted and the successes are exactly the
\* files that decode.
C1_DecodeFailureIsPerFile ==
    /\ \A i \in DOMAIN task :
          task[i].pc = "done" =>
              task[i].result = IF FileDecode(i).status = "ok" THEN "True" ELSE "False"
    /\ coord = "done" =>
          /\ \A i \in DOMAIN task : task[i].pc = "done"
          /\ completed_count = NFiles
          /\ Succeeded = ValidFiles

C1_Witness ==
    /\ coord = "done"
    /\ \E i, j, k \in DOMAIN task :
          /\ FileDecode(i).status = "PayloadReadError" /\ task[i].result = "False"
          /\ FileDecode(j).status = "HeaderReadError" /\ task[j].result = "False"
          /\ task[k].result = "True"

\* C2: in the batch loop of main.py no call of process_pipeline raises and
\* taking a future's result never ends the run, whatever the file, files that
\* decode successfully included.
C2_PipelineNeverRaises ==
    /\ \A i \in DOMAIN task : task[i].result # "raised"
    /\ coord # "crashed"

Visited(a, i) == outcome[a][i] # "none"
Passed(a, i) == pos.a > a \/ (pos.a = a /\ pos.i > i)

\* C3: in the area-based batch a RecordLenError raised while decoding one file
\* ends the work on that file only: the run is not aborted by it.
C3_RecordLenErrorIsPerFile ==
    \A a \in DOMAIN outcome : \A i \in DOMAIN outcome[a] :
        outcome[a][i] = "RecordLenError" => run # "aborted"

\* C4: in the area-based batch a BboxRangeError stops the remaining files of
\* its area and nothing else: no later file of that area is visited, the loop
\* goes on with the next area, and a file is passed over only behind a
\* BboxRangeError of its own area.  A HeaderReadError or PayloadReadError
\* passes over that one file only: the loop goes on with the next file of the
\* same area.
C4_BboxErrorEndsAreaOnly ==
    \A a \in DOMAIN outcome : \A i \in DOMAIN outcome[a] :
        /\ outcome[a][i] = "BboxRangeError" =>
              /\ \A j \in DOMAIN outcome[a] : j > i => ~Visited(a, j)
              /\ pos.a > a
        /\ (~Visited(a, i) /\ Passed(a, i)) =>
              \E j \in DOMAIN outcome[a] : j < i /\ outcome[a][j] = "BboxRangeError"
        /\ outcome[a][i] \in {"HeaderReadError", "PayloadReadError"} =>
              /\ Passed(a, i)
              /\ i + 1 \in DOMAIN outcome[a] =>
                    (pos = [a |-> a, i |-> i + 1] \/ Visited(a, i + 1))
        /\ run = "done" => pos.a > Len(areas)

C4_Witness ==
    /\ run = "done"
    /\ \E a, b \in DOMAIN outcome :
          /\ a < b
          /\ outcome[a][1] = "PayloadReadError"
          /\ outcome[a][2] = "BboxRangeError"
          /\ outcome[b][1] = "HeaderReadError"
          /\ outcome[b][2] = "ok"

(***************************************************************************)
(* Claims about apply_bbox.                                                *)
(***************************************************************************)
\* The box lies beyond the raster by more than half a pixel of that axis on a side.
BeyondHalfPixel(n, box) ==
    \/ 2 * box[1] > 2 * n.x_right + n.x_pixel_size
    \/ 2 * box[2] < 2 * n.x_left - n.x_pixel_size
    \/ 2 * box[3] > 2 * n.y_top + n.y_pixel_size
    \/ 2 * box[4] < 2 * n.y_bottom - n.y_pixel_size

\* C8 (as claimed): apply_bbox raises BboxRangeError exactly when the box lies
\* outside the raster by more than half a pixel on some side, the tolerance of
\* each edge being half of that axis's own pixel size.
C8_RaisesIffBeyondHalfPixel ==
    last.called => (last.raised <=> BeyondHalfPixel(last.before, last.box))

FullExtent(n) == <<n.x_left, n.x_right, n.y_bottom, n.y_top>>

\* C9: apply_bbox with the box equal to the full raster extent does not raise and
\* leaves the grid, nrows, ncols, the four bounds and every header element
\* unchanged, on a decoded raster and on one that was clipped before.
C9_FullExtentIsIdentity ==
    (last.called /\ last.box = FullExtent(last.before))
        => (~last.raised /\ nim = last.before)

C9_Witness ==
    /\ last.called /\ ~last.raised
    /\ last.box = FullExtent(last.before)
    /\ last.before.ncols >= 2
    /\ last.before.y_top # DefaultYTop
    /\ nim = last.before

\* The pixel indices by the floor formulas, after limiting the box to the raster.
FloorIndices(n, box) ==
    LET cxmin == Max(box[1], n.x_left)
        cxmax == Min(box[2], n.x_right)
        cymin == Max(box[3], n.y_bottom)
        cymax == Min(box[4], n.y_top)
    IN  [ xMin |-> (2 * (cxmin - n.x_left) + n.x_pixel_size) \div (2 * n.x_pixel_size),
          xMax |-> (2 * (cxmax - n.x_left) + n.x_pixel_size) \div (2 * n.x_pixel_size),
          yMin |-> (2 * (n.y_top - cymax) + n.y_pixel_size) \div (2 * n.y_pixel_size),
          yMax |-> (2 * (n.y_top - cymin) + n.y_pixel_size) \div (2 * n.y_pixel_size) ]

\* C10 (as claimed): for every accepted box the indices the code computes equal
\* the floor formulas, satisfy 0 <= xMin <= xMax <= ncols-1 and
\* 0 <= yMin <= yMax <= nrows-1, and cell (i, j) of the cropped grid is cell
\* (yMin+i, xMin+j) of the grid before.
C10_IndicesInRangeAndCropExact ==
    (last.called /\ ~last.raised) =>
        LET b == last.before
            p == last.idx
        IN  /\ p = FloorIndices(b, last.box)
            /\ 0 <= p.xMin /\ p.xMin <= p.xMax /\ p.xMax <= b.ncols - 1
            /\ 0 <= p.yMin /\ p.yMin <= p.yMax /\ p.yMax <= b.nrows - 1
            /\ nim.data = [i \in 1..(p.yMax - p.yMin + 1) |->
                             [j \in 1..(p.xMax - p.xMin + 1) |->
                                 b.data[p.yMin + i][p.xMin + j]]]

\* C11 (as claimed): after a successful apply_bbox the bounds, nrows and ncols
\* describe the cropped grid (x_right = x_left + x_pixel_size*(ncols-1),
\* y_bottom = y_top - y_pixel_size*(nrows-1), the grid has nrows rows of ncols
\* values, header elements 16, 17, 34, 36 equal the named fields) and every
\* other header field is what it was before the call; after any sequence of
\* successful calls.
C11_HeaderDescribesCrop ==
    (last.called /\ ~last.raised) =>
        /\ nim.x_right = nim.x_left + nim.x_pixel_size * (nim.ncols - 1)
        /\ nim.y_bottom = nim.y_top - nim.y_pixel_size * (nim.nrows - 1)
        /\ Len(nim.data) = nim.nrows
        /\ \A r \in 1..Len(nim.data) : Len(nim.data[r]) = nim.ncols
        /\ nim.hdr_element[16] = nim.nrows /\ nim.hdr_element[17] = nim.ncols
        /\ nim.hdr_element[34] = nim.y_top /\ nim.hdr_element[36] = nim.x_left
        /\ nim.x_pixel_size = last.before.x_pixel_size
        /\ nim.y_pixel_size = last.before.y_pixel_size
        /\ \A e \in HdrElems \ {16, 17, 34, 36} :
              nim.hdr_element[e] = last.before.hdr_element[e]


(***************************************************************************)
(* What a stream holds, read off its bytes (independently of Decode).      *)
(***************************************************************************)
DeclaredBytes(s) == s.hdr[16] * s.hdr[17] * 2

HeaderStartRead(s) == s.len >= MarkerLen
HeaderEndRead(s)   == s.m1 = HeaderLen /\ s.len >= TailOff
DataStartRead(s)   ==
    HeaderEndRead(s) /\ s.m2 = HeaderLen /\ s.text_ok /\ s.len >= TailOff + MarkerLen
DataStartValue(s)  == Dec32(SubSeq(s.tail, 1, MarkerLen))
DataEndRead(s)     ==
    /\ DataStartRead(s)
    /\ DataStartValue(s) = DeclaredBytes(s)
    /\ DeclaredBytes(s) >= 0
    /\ s.hdr[16] >= 0 /\ s.hdr[17] >= 0
    /\ s.len >= TailOff + 2 * MarkerLen + DeclaredBytes(s)
DataEndValue(s)    ==
    Dec32(SubSeq(s.tail, MarkerLen + DeclaredBytes(s) + 1,
                 2 * MarkerLen + DeclaredBytes(s)))

IsRecordLenError(d, actual, expected, location) ==
    /\ d.status = "RecordLenError"
    /\ d.actual = actual /\ d.expected = expected /\ d.location = location
    /\ d.obj = <<>>

\* C5: decode succeeds only if the markers around the header both equal 512 and
\* the markers around the payload both equal nrows*ncols*2; a marker that is read
\* in full with another value raises RecordLenError carrying the actual value,
\* the expected value and the location, and no Nimrod object is produced.
C5_MarkersGuardDecode ==
    dec.status # "none" =>
        /\ dec.status = "ok" =>
              /\ DataEndRead(stream)
              /\ stream.m1 = HeaderLen /\ stream.m2 = HeaderLen
              /\ DataStartValue(stream) = DeclaredBytes(stream)
              /\ DataEndValue(stream) = DeclaredBytes(stream)
        /\ (HeaderStartRead(stream) /\ stream.m1 # HeaderLen) =>
              IsRecordLenError(dec, stream.m1, HeaderLen, "header start")
        /\ (HeaderEndRead(stream) /\ stream.m2 # HeaderLen) =>
              IsRecordLenError(dec, stream.m2, HeaderLen, "header end")
        /\ (DataStartRead(stream) /\ DataStartValue(stream) # DeclaredBytes(stream)) =>
              IsRecordLenError(dec, DataStartValue(stream), DeclaredBytes(stream),
                               "data start")
        /\ (DataEndRead(stream) /\ DataEndValue(stream) # DeclaredBytes(stream)) =>
              IsRecordLenError(dec, DataEndValue(stream), DeclaredBytes(stream),
                               "data end")

C5_Witness ==
    /\ dec.status = "RecordLenError" /\ dec.location = "data end"
    /\ dec.actual # dec.expected /\ stream.hdr[16] * stream.hdr[17] > 0

\* A stream that is a valid NIMROD file cut after len bytes.
CutOfValidStream(s) ==
    /\ s.m1 = HeaderLen /\ s.m2 = HeaderLen /\ s.text_ok
    /\ s.hdr[16] >= 1 /\ s.hdr[17] >= 1
    /\ s.tail = SubSeq(Enc32(DeclaredBytes(s)) \o PayloadBytes(s.hdr[16] * s.hdr[17])
                         \o Enc32(DeclaredBytes(s)), 1, s.len - TailOff)

\* C6 (as claimed): an otherwise valid stream cut anywhere after the data-start
\* marker, so that payload bytes or the trailing marker are incomplete, fails
\* with PayloadReadError.
C6_ShortPayloadRecordIsPayloadReadError ==
    ( /\ dec.status # "none"
      /\ CutOfValidStream(stream)
      /\ stream.len >= TailOff + MarkerLen
      /\ stream.len < FullLen(stream.hdr[16] * stream.hdr[17]) )
    => dec.status = "PayloadReadError"

\* C7 (as claimed): a short read of the header block, or text bytes that do not
\* decode, fail with HeaderReadError and with no other exception type.
C7_HeaderFailureIsHeaderReadError ==
    ( /\ dec.status # "none"
      /\ stream.m1 = HeaderLen
      /\ \/ stream.len >= MarkerLen /\ stream.len < HeaderEndOff
         \/ stream.len >= TailOff /\ stream.m2 = HeaderLen /\ ~stream.text_ok )
    => dec.status = "HeaderReadError"

(***************************************************************************)
(* Claims about the ASCII export.                                          *)
(***************************************************************************)
\* The number a "%d" text stands for.
RECURSIVE DigitsValue(_)
DigitsValue(ds) ==
    IF Len(ds) = 0 THEN 0
    ELSE 10 * DigitsValue(SubSeq(ds, 1, Len(ds) - 1)) + ds[Len(ds)]

ParseInt(ds) ==
    IF Len(ds) > 0 /\ ds[1] = -1 THEN -DigitsValue(Tail(ds)) ELSE DigitsValue(ds)

C13_ExportScenario ==
    (arg = ExportScenario /\ Len(ret) = 1) =>
        /\ ret[1].header.xllcenter = <<6, 0, 7, 0, 0, 0>>
        /\ ret[1].header.yllcenter = <<2, 1, 6, 0, 0, 0>>
        /\ ret[1].header.cellsize = [int |-> <<1, 0, 0, 0>>, frac |-> <<0>>]
        /\ ret[1].rows = << << <<1, 0>>, <<2, 0>> >>, << <<3, 0>>, <<4, 0>> >> >>

\* C13 (amended): for that header and grid the export writes xllcenter 607000,
\* yllcenter 217000 (= 218000 - 1000*(2-1), the centre of the southern row),
\* cellsize 1000.0 and the rows "10 20" and "30 40".
C13_ExportScenarioAmended ==
    (arg = ExportScenario /\ Len(ret) = 1) =>
        /\ ret[1].header.xllcenter = <<6, 0, 7, 0, 0, 0>>
        /\ ret[1].header.yllcenter = <<2, 1, 7, 0, 0, 0>>
        /\ ret[1].header.cellsize = [int |-> <<1, 0, 0, 0>>, frac |-> <<0>>]
        /\ ret[1].rows = << << <<1, 0>>, <<2, 0>> >>, << <<3, 0>>, <<4, 0>> >> >>

C13_Witness == arg = ExportScenario /\ Len(ret) = 1

(***************************************************************************)
(* Claims about the timeseries extraction.                                 *)
(***************************************************************************)
\* C14 (as claimed): the crop-window computation with the target equal to the
\* source (same origin, rows, columns and cell size) returns
\* (0, 0, sourceCols, sourceRows), for every grid size and origin.
C14_TargetEqualsSourceIsWholeGrid ==
    (Len(ret) = 1 /\ arg.target = arg.radar) =>
        ret[1].window = <<0, 0, arg.radar[1], arg.radar[2]>>

\* The timestamps at which grid id g was observed, and by which files.
ObservedAt(g) == {arg[f].date : f \in {h \in DOMAIN arg : g \in arg[h].covers}}
Observers(g, d) == {f \in DOMAIN arg : g \in arg[f].covers /\ arg[f].date = d}
LocIndex(g) == CHOOSE i \in DOMAIN Locations : Locations[i][1] = g

\* C15: every zone table has exactly one row per distinct timestamp observed by
\* any member grid id of the zone (no duplicates, none of another zone only),
\* in strictly ascending order, and one column per member grid id.
C15_ZoneRowsAreUnionSorted ==
    Len(ret) = 1 =>
        \A zone \in Zones :
            LET tab == ret[1][zone]
            IN  /\ SeqToSet(tab.datetime) = UNION {ObservedAt(g) : g \in Members(zone)}
                /\ \A k \in 1..(Len(tab.datetime) - 1) : tab.datetime[k] < tab.datetime[k + 1]
                /\ DOMAIN tab.cols = Members(zone)
                /\ \A g \in Members(zone) : Len(tab.cols[g]) = Len(tab.datetime)

C15_Witness ==
    /\ Len(ret) = 1
    /\ ObservedAt("A") = {1, 2} /\ ObservedAt("B") = {2, 3}
    /\ ret[1]["Z1"].datetime = <<1, 2, 3>>

\* C16 (as claimed): in a zone table the cell of grid id g at timestamp t holds
\* a value observed for g at t, and is None exactly when g has no observation
\* at t.
C16_CellsHoldTheirObservation ==
    Len(ret) = 1 =>
        \A zone \in Zones : \A g \in Members(zone) :
            LET tab == ret[1][zone]
            IN  \A k \in 1..Len(tab.datetime) :
                    IF Observers(g, tab.datetime[k]) = {}
                    THEN tab.cols[g][k] = <<>>
                    ELSE \E f \in Observers(g, tab.datetime[k]) :
                            tab.cols[g][k] = <<SeriesValue(f, LocIndex(g))>>

\* results as the coordinator builds them when the files complete in listing order.
RECURSIVE ResultsInOrder(_)
ResultsInOrder(n) ==
    IF n = 0 THEN EmptyResults ELSE AppendFile(ResultsInOrder(n - 1), n, arg[n])

\* C17 (as claimed): the zone tables do not depend on the order in which the
\* files complete: whatever the order, they are the tables of the run in which
\* the files complete in listing order.
C17_TablesIgnoreCompletionOrder ==
    Len(ret) = 1 => ret[1] = write_results_to_csv(ResultsInOrder(NSeriesFiles))

(***************************************************************************)
(* Claims about the intermediate files and the batches of main.py.         *)
(***************************************************************************)
\* process_single_gz has returned for file i: its DAT file was created.
Extracted(i) == task[i].pc \in {"decode", "write", "cleanup", "timeseries", "done"}

\* C18 (as claimed): in the pipeline a GZ file is gone only after its DAT file
\* was written completely, and a DAT file is gone only after its ASC file was
\* exported completely; when the consuming step failed the file is still there.
C18_DeletedOnlyAfterConsumed ==
    \A i \in DOMAIN task :
        /\ i \notin gz => (files[i] # 0 /\ Extracted(i))
        /\ (Extracted(i) /\ i \notin dat) =>
              (FileDecode(i).status = "ok" /\ task[i].pc \in {"timeseries", "done"})

AscPathOf(i) == get_validity_time(FileDecode(i).obj[1])
Writers(p) == {i \in Files : task[i].pc \in {"write", "rows"} /\ AscPathOf(i) = p}

\* The file holds header lines and, behind them, exactly the nrows raster lines
\* its header announces.
AscComplete(f) ==
    /\ Len(f.lines) >= 1
    /\ f.lines[1][1] \in Files
    /\ f.lines[1][2] = 0
    /\ Len(f.lines) = FileDecode(f.lines[1][1]).obj[1].nrows + 1
    /\ \A k \in 2..Len(f.lines) : f.lines[k][1] \in Files /\ f.lines[k][2] = k - 1

\* The file is what one task wrote, whole and unmixed.
AscOfOneTask(f) ==
    \E i \in Files :
        FileDecode(i).status = "ok" /\ f.lines = AscLines(i, FileDecode(i).obj[1])

Settled == coord = "interrupted" /\ Running = {}

C21_NoStartAfterInterrupt ==
    [][coord = "interrupted" =>
          \A i \in Files : task[i].pc \in {"queued", "cancelled"} => task'[i] = task[i]]_vars

C21_RunningTasksFinish == (coord = "interrupted") ~> Settled

C21_FilesComplete ==
    [](Settled => \A p \in DOMAIN asc : asc[p].state # "absent" => AscComplete(asc[p]))

\* C21: after KeyboardInterrupt has reached the coordinator no task that had
\* not started begins, every running task comes to its end, and once they
\* have, every ASC file that exists holds its header lines and all the nrows
\* raster lines, never a part of them.
C21_InterruptLeavesWholeFiles ==
    /\ C21_NoStartAfterInterrupt
    /\ C21_RunningTasksFinish
    /\ C21_FilesComplete

\* C29: no two running tasks of process_nimrod_files write the same output
\* file: distinct DAT files have distinct ASC paths, and a file that has been
\* written is what a single task wrote.
C29_DistinctFilesDistinctPaths ==
    /\ \A i, j \in ValidFiles : i # j => AscPathOf(i) # AscPathOf(j)
    /\ \A p \in DOMAIN asc : Cardinality(Writers(p)) <= 1
    /\ \A p \in DOMAIN asc :
          asc[p].state = "complete" => AscOfOneTask(asc[p])

(***************************************************************************)
(* Claims about a GZ file that cannot be extracted.                        *)
(***************************************************************************)
CorruptGz == {i \in DOMAIN task : files[i] = 0}

\* C22: a GZ file whose extraction fails is skipped: its DAT file is never
\* handed to the decoder, its call of process_pipeline returns None, and the
\* other files of the batch are still processed.
C22_CorruptGzIsSkipped ==
    /\ \A i \in CorruptGz : task[i].pc \notin {"decode", "write", "cleanup", "timeseries"}
    /\ \A i \in CorruptGz : task[i].pc = "done" => task[i].result = "None"
    /\ coord = "done" => \A i \in DOMAIN task : task[i].pc = "done"

(***************************************************************************)
(* Claims about the dimensions of a decoded object.                        *)
(***************************************************************************)
GridMatchesHeader(n) ==
    /\ Len(n.data) = n.nrows
    /\ \A r \in 1..Len(n.data) : Len(n.data[r]) = n.ncols

\* C23: every object a successful decode produces has nrows > 0 and
\* ncols > 0, and its grid has exactly nrows rows of ncols values.
C23_DecodedDimensionsPositive ==
    dec.status = "ok" =>
        /\ dec.obj[1].nrows > 0
        /\ dec.obj[1].ncols > 0
        /\ GridMatchesHeader(dec.obj[1])

(***************************************************************************)
(* Claims about the outcomes and the progress count of a run.              *)
(***************************************************************************)
RunState == acc[1]
Terminal == {i \in RunFiles : RunState.call[i] \in {"True", "False"}}
Multiples(n) == {k \in 1..n : k % 10 = 0}

C24_OneOutcomePerFile ==
    [](\A i \in RunFiles :
          /\ RunState.call[i] \in {"queued", "True", "False", "cancelled"}
          /\ RunState.call[i] = "cancelled" => RunState.coord = "interrupted"
          /\ RunState.call[i] \in {"True", "False"} => RunState.call[i] = CallResult(arg[i]))

C24_OutcomeIsFinal ==
    [][\A i \in RunFiles :
          RunState.call[i] \in {"True", "False"} => acc'[1].call[i] = RunState.call[i]]_vars

C24_RunEnds ==
    <>(\/ RunState.coord = "interrupted"
       \/ /\ RunState.coord = "done"
          /\ Terminal = RunFiles
          /\ RunState.completed_count = NRunFiles)

C24_CountAndProgress ==
    [](/\ RunState.completed_count = Cardinality(RunState.collected)
       /\ RunState.collected \subseteq Terminal
       /\ Len(RunState.log) = Cardinality(Multiples(RunState.completed_count))
       /\ \A k \in 1..Len(RunState.log) : RunState.log[k] = 10 * k)

\* C24: every submitted file ends in exactly one outcome, True or False, and
\* keeps it; unless the run is interrupted it ends with every file finished
\* and counted; the count grows by one per collected file and a progress line
\* is logged exactly at the positive multiples of 10.
C24_OutcomesAndProgress ==
    /\ C24_OneOutcomePerFile
    /\ C24_OutcomeIsFinal
    /\ C24_RunEnds
    /\ C24_CountAndProgress

C24_Witness ==
    /\ RunState.coord = "done"
    /\ RunState.completed_count = 10
    /\ RunState.log = <<10>>
    /\ \E i, j \in RunFiles : RunState.call[i] = "True" /\ RunState.call[j] = "False"

(***************************************************************************)
(* Claims about the point extraction of process_asc_file.                  *)
(***************************************************************************)
PointWindow(k) == calculate_crop_coords_module(arg.locations[k], arg.radar)

\* The cells (row, column, counted from 1 at the top left) that lie both in
\* the crop window and in the grid.
WindowCells(k) ==
    { <<r, c>> \in (1..arg.radar[2]) \X (1..arg.radar[1]) :
        /\ PointWindow(k)[2] < r /\ r <= PointWindow(k)[4]
        /\ PointWindow(k)[1] < c /\ c <= PointWindow(k)[3] }

Returned == Len(ret) = 1 /\ ret[1].kind = "list"

\* C25: process_asc_file records an observation for a location only when a
\* grid cell was read for it: a location whose crop holds two cells or fewer
\* has no entry in the results of the file.
C25_ObservationOnlyFromACell ==
    Returned =>
        \A k \in 1..Len(arg.locations) :
            (\E e \in 1..Len(ret[1].results) :
                 ret[1].results[e].zone_id = arg.locations[k][1])
            => Cardinality(WindowCells(k)) > 2

\* C26: the value recorded for a location is the value of a cell that lies
\* in the crop window and in the grid; no cell is reached through a negative
\* index counted from the far side of the grid.
C26_ValueFromInsideTheWindow ==
    Returned =>
        \A k \in 1..Len(arg.locations) :
            ret[1].results[k].value # 0 =>
                \E rc \in WindowCells(k) :
                    ret[1].results[k].value = PointCell(rc[1], rc[2]) \div 32

(***************************************************************************)
(* Claims about the raster an apply_bbox call leaves behind.               *)
(***************************************************************************)
\* C27: an apply_bbox call on a raster with cells that does not raise leaves
\* a raster with cells, nrows >= 1 and ncols >= 1, also when the box lies in
\* the outer half pixel of an edge or exactly at its end.
C27_AcceptedBoxLeavesCells ==
    (last.called /\ ~last.raised /\ last.before.nrows >= 1 /\ last.before.ncols >= 1)
        => (nim.nrows >= 1 /\ nim.ncols >= 1)

\* C28: an apply_bbox call that raises BboxRangeError leaves the object as it
\* was, grid, dimensions, edges and header elements, and the next call with
\* an overlapping box behaves as on an object that never saw the failed call.
C28_RaiseLeavesObjectUntouched ==
    [][ /\ (last'.called /\ last'.raised => nim' = nim)
        /\ (last.called /\ last.raised /\ ~last'.called =>
                nim' = nim /\ last'.before = last.before)
        /\ (last.called /\ last.raised => nim = last.before) ]_vars

C28_Witness ==
    /\ last.called /\ last.raised
    /\ nim = last.before
    /\ nim.nrows = MaxDim /\ nim.ncols = MaxDim
    /\ Len(nim.data) = MaxDim
=============================================================================
